---- MODULE Spec2Model ----
(***************************************************************************)
(* SourceFlow: the RelationshipBuilder (sourceflow/core/builder.py) and    *)
(* the parts of the VisualizationGenerator that consume its summary.       *)
(*                                                                         *)
(* A Python dict is a function whose DOMAIN is the set of its keys; where  *)
(* the code iterates a dict, the insertion order of its keys is kept in a  *)
(* companion sequence (fn_keys, file_keys).  A Python list is a sequence.  *)
(* A key that is missing from an input dict is missing from the DOMAIN.    *)
(*                                                                         *)
(* Spec        : one builder fed arbitrary analysis results.               *)
(* SpecProject : a run of analyze_project followed by the generation of a  *)
(*               function or dependency diagram (Mermaid and Graphviz).    *)
(* SpecReplay  : one builder fed a sequence of results twice.              *)
(* SpecQuery   : ingestions interleaved with the builder's queries.        *)
(* SpecOrder   : the same files fed to a second builder in another order.  *)
(* SpecAnalyze : CodeAnalyzer._analyze_code, its requests and retries.     *)
(* SpecRun     : the loop of analyze_project with failing files.           *)
(***************************************************************************)
EXTENDS Integers, Sequences, FiniteSets, TLC

\* Number of add_file_analysis calls made on one builder.
MaxIngest == 2

Files == {"a.py", "b.py"}
\* Function identifiers the analyzer reports.
Names == {"main", "helper", "util"}
\* Reported functions that their own analysis also declares as entry points.
EntryNames == {"main", "util"}

VARIABLES
  all_functions,       \* dict: function name -> details record
  fn_keys,             \* insertion order of the keys of all_functions / call_graph
  all_dependencies,    \* set
  all_entry_points,    \* set
  file_summaries,      \* dict: file path -> summary
  file_keys,           \* insertion order of the keys of file_summaries
  call_graph,          \* dict: function name -> list of called names
  reverse_call_graph,  \* dict: called name -> list of callers
  log,                 \* history: the (file_path, analysis) pairs ingested so far
  diagram,             \* what the last diagram generation selected and emitted
  first_pass,          \* the function tables when a replay of the history began
  analyzer,            \* CodeAnalyzer._analyze_code: its position and its attempts so far
  run,                 \* analyze_project: the files handled so far and how
  observed             \* what the callers of the queries hold: the summaries
                       \* returned so far and the name of the last query

builder_vars == <<all_functions, fn_keys, all_dependencies, all_entry_points,
                  file_summaries, file_keys, call_graph, reverse_call_graph, log>>

vars == <<all_functions, fn_keys, all_dependencies, all_entry_points,
          file_summaries, file_keys, call_graph, reverse_call_graph, log,
          diagram, first_pass, observed, analyzer, run>>

----------------------------------------------------------------------------
(* Dicts and lists *)

EmptyDict == [x \in {} |-> x]

\* d.get(k, default)
Get(d, k, default) == IF k \in DOMAIN d THEN d[k] ELSE default

\* d[k] = v
Put(d, k, v) == [x \in (DOMAIN d) \cup {k} |-> IF x = k THEN v ELSE d[x]]

Range(s) == {s[i] : i \in 1..Len(s)}

\* isinstance(func_data, dict): a list entry that is no dict is modelled as
\* the one-field record [nondict |-> TRUE].
IsDict(x) == "nondict" \notin DOMAIN x

----------------------------------------------------------------------------
(* Analysis results handed to add_file_analysis *)

CallLists ==
  { <<>>, <<"helper">>, <<"ext", "helper">>, <<"main", "util">>, <<"helper", "helper">> }

FuncEntry(n, c) ==
  [name |-> n, description |-> "d", inputs |-> "i", outputs |-> "o", calls |-> c]

\* The analysis of a file that holds one function.
FunctionAnalysis(n, c) ==
  [summary |-> "s", dependencies |-> <<>>,
   entry_points |-> IF n \in EntryNames THEN <<n>> ELSE <<>>,
   functions |-> <<FuncEntry(n, c)>>]

OtherAnalyses ==
  { \* explicit dependencies, an entry point that is never a function
    [summary |-> "s", dependencies |-> <<"os", "b.py">>,
     entry_points |-> <<"ghost", "helper">>, functions |-> <<>>],
    \* every top-level key missing
    EmptyDict,
    \* function entries with missing keys, one of them without a name
    [functions |-> << [name |-> "helper"], [calls |-> <<"main">>] >>],
    \* an entry that is no dict, then the same name twice
    [summary |-> "t",
     functions |-> << [nondict |-> TRUE],
                      [name |-> "util", description |-> "old", calls |-> <<"main">>],
                      [name |-> "util", description |-> "new", calls |-> <<"helper", "main">>] >>],
    \* two functions of one file calling each other and a third
    [summary |-> "s", entry_points |-> <<"main", "helper", "ghost">>,
     functions |-> << FuncEntry("main", <<"helper", "util">>),
                      FuncEntry("helper", <<"main", "util">>) >>] }

Analyses == {FunctionAnalysis(n, c) : n \in Names, c \in CallLists} \cup OtherAnalyses

----------------------------------------------------------------------------
(* RelationshipBuilder.add_file_analysis *)

RECURSIVE UpdateReverse(_, _, _, _)
UpdateReverse(rcg, calls, i, func_name) ==
  IF i > Len(calls) THEN rcg
  ELSE LET called_func == calls[i]
           base == IF called_func \notin DOMAIN rcg
                   THEN Put(rcg, called_func, <<>>) ELSE rcg
       IN UpdateReverse(Put(base, called_func, Append(base[called_func], func_name)),
                        calls, i + 1, func_name)

\* The builder's function tables after a last-write-wins store that drops
\* from the call graph the callees unknown at ingestion time.
StoreFunctionResolvedOnly(b, func_data, file_path) ==
  LET func_name == Get(func_data, "name", "unknown")
      calls == Get(func_data, "calls", <<>>)
  IN [all_functions |->
        Put(b.all_functions, func_name,
            [description |-> Get(func_data, "description", ""),
             inputs |-> Get(func_data, "inputs", ""),
             outputs |-> Get(func_data, "outputs", ""),
             calls |-> calls,
             file_path |-> file_path]),
      fn_keys |-> IF func_name \in DOMAIN b.all_functions
                  THEN b.fn_keys ELSE Append(b.fn_keys, func_name),
      call_graph |->
        Put(b.call_graph, func_name,
            SelectSeq(calls, LAMBDA c : c \in DOMAIN b.all_functions \cup {func_name})),
      reverse_call_graph |-> UpdateReverse(b.reverse_call_graph, calls, 1, func_name)]

\* A store that keeps the record already present for a name.
StoreFunctionKeepFirst(b, func_data, file_path) ==
  LET func_name == Get(func_data, "name", "unknown")
      calls == Get(func_data, "calls", <<>>)
  IN IF func_name \in DOMAIN b.all_functions
     THEN [b EXCEPT !.reverse_call_graph = UpdateReverse(@, calls, 1, func_name)]
     ELSE [all_functions |->
             Put(b.all_functions, func_name,
                 [description |-> Get(func_data, "description", ""),
                  inputs |-> Get(func_data, "inputs", ""),
                  outputs |-> Get(func_data, "outputs", ""),
                  calls |-> calls,
                  file_path |-> file_path]),
           fn_keys |-> Append(b.fn_keys, func_name),
           call_graph |-> Put(b.call_graph, func_name, calls),
           reverse_call_graph |-> UpdateReverse(b.reverse_call_graph, calls, 1, func_name)]

\* A store that reads the optional keys without a default, so that a
\* missing description, inputs or outputs is stored as None.
StoreFunctionWithoutDefaults(b, func_data, file_path) ==
  LET func_name == Get(func_data, "name", "unknown")
      calls == Get(func_data, "calls", <<>>)
  IN [all_functions |->
        Put(b.all_functions, func_name,
            [description |-> Get(func_data, "description", "None"),
             inputs |-> Get(func_data, "inputs", "None"),
             outputs |-> Get(func_data, "outputs", "None"),
             calls |-> calls,
             file_path |-> file_path]),
      fn_keys |-> IF func_name \in DOMAIN b.all_functions
                  THEN b.fn_keys ELSE Append(b.fn_keys, func_name),
      call_graph |-> Put(b.call_graph, func_name, calls),
      reverse_call_graph |-> UpdateReverse(b.reverse_call_graph, calls, 1, func_name)]

\* A store that appends the reported calls to the call list already held.
StoreFunctionAppendCalls(b, func_data, file_path) ==
  LET func_name == Get(func_data, "name", "unknown")
      calls == Get(func_data, "calls", <<>>)
  IN [all_functions |->
        Put(b.all_functions, func_name,
            [description |-> Get(func_data, "description", ""),
             inputs |-> Get(func_data, "inputs", ""),
             outputs |-> Get(func_data, "outputs", ""),
             calls |-> calls,
             file_path |-> file_path]),
      fn_keys |-> IF func_name \in DOMAIN b.all_functions
                  THEN b.fn_keys ELSE Append(b.fn_keys, func_name),
      call_graph |-> Put(b.call_graph, func_name,
                         Get(b.call_graph, func_name, <<>>) \o calls),
      reverse_call_graph |-> UpdateReverse(b.reverse_call_graph, calls, 1, func_name)]

\* The body of the loop over analysis["functions"], for one dict entry.
StoreFunction(b, func_data, file_path) ==
  LET func_name == Get(func_data, "name", "unknown")
      calls == Get(func_data, "calls", <<>>)
  IN [all_functions |->
        Put(b.all_functions, func_name,
            [description |-> Get(func_data, "description", ""),
             inputs |-> Get(func_data, "inputs", ""),
             outputs |-> Get(func_data, "outputs", ""),
             calls |-> calls,
             file_path |-> file_path]),
      fn_keys |-> IF func_name \in DOMAIN b.all_functions
                  THEN b.fn_keys ELSE Append(b.fn_keys, func_name),
      call_graph |-> Put(b.call_graph, func_name, calls),
      reverse_call_graph |-> UpdateReverse(b.reverse_call_graph, calls, 1, func_name)]

RECURSIVE ProcessFunctions(_, _, _, _)
ProcessFunctions(b, functions, i, file_path) ==
  IF i > Len(functions) THEN b
  ELSE ProcessFunctions(IF IsDict(functions[i])
                        THEN StoreFunction(b, functions[i], file_path)
                        ELSE b,
                        functions, i + 1, file_path)

\* analysis.get("summary", "")
summary_or_empty(analysis) == Get(analysis, "summary", "")

\* analysis.get("summary", "No summary available")
summary_of(analysis) == Get(analysis, "summary", "No summary available")

\* The effect of one add_file_analysis call on the builder.
Ingest(file_path, analysis) ==
  LET b == ProcessFunctions([all_functions |-> all_functions, fn_keys |-> fn_keys,
                             call_graph |-> call_graph,
                             reverse_call_graph |-> reverse_call_graph],
                            Get(analysis, "functions", <<>>), 1, file_path)
  IN /\ file_summaries' = Put(file_summaries, file_path, summary_of(analysis))
     /\ file_keys' = IF file_path \in DOMAIN file_summaries
                     THEN file_keys ELSE Append(file_keys, file_path)
     /\ all_dependencies' = all_dependencies \cup Range(Get(analysis, "dependencies", <<>>))
     /\ all_entry_points' = all_entry_points \cup Range(Get(analysis, "entry_points", <<>>))
     /\ all_functions' = b.all_functions
     /\ fn_keys' = b.fn_keys
     /\ call_graph' = b.call_graph
     /\ reverse_call_graph' = b.reverse_call_graph
     /\ log' = Append(log, [file_path |-> file_path, analysis |-> analysis])

AddFileAnalysis(file_path, analysis) ==
  /\ Len(log) < MaxIngest
  /\ Ingest(file_path, analysis)
  /\ UNCHANGED <<diagram, first_pass, observed, analyzer, run>>

add_file_analysis == \E file_path \in Files, analysis \in Analyses :
                        AddFileAnalysis(file_path, analysis)

----------------------------------------------------------------------------
(* RelationshipBuilder queries *)

get_function_details(func_name) == Get(all_functions, func_name, EmptyDict)

get_functions_by_file(file_path) ==
  SelectSeq(fn_keys, LAMBDA func_name : all_functions[func_name].file_path = file_path)

get_function_callers(func_name) == Get(reverse_call_graph, func_name, <<>>)

get_function_callees(func_name) == Get(call_graph, func_name, <<>>)

\* The callees in call-list order, external calls kept.
AllCallees(func_name) == get_function_callees(func_name)

\* The resolvable callees, last call first.
ResolvableCalleesReversed(func_name) ==
  LET cs == SelectSeq(get_function_callees(func_name),
                      LAMBDA callee : callee \in DOMAIN all_functions)
  IN [i \in 1..Len(cs) |-> cs[Len(cs) + 1 - i]]

\* _trace_path_from: the callees that exist in the function list.
ResolvableCallees(func_name) ==
  SelectSeq(get_function_callees(func_name),
            LAMBDA callee : callee \in DOMAIN all_functions)

\* A cycle guard that hands back the revisited node.
RevisitedNode(func_name) == <<func_name>>

\* _trace_path_from: the result for a function that is already visited.
AvoidCycle(func_name) == <<>>

RECURSIVE trace_path_from(_, _)
RECURSIVE TraceCallees(_, _, _, _)

\* _trace_path_from(func_name, visited); visited1 is the set after
\* visited.add(func_name), of which every callee receives a copy.
trace_path_from(func_name, visited) ==
  IF func_name \in visited THEN AvoidCycle(func_name)
  ELSE LET visited1 == visited \cup {func_name}
       IN TraceCallees(<<func_name>>, ResolvableCallees(func_name), 1, visited1)

\* The loop "for callee in callees", from its i-th iteration on.
TraceCallees(path, callees, i, visited) ==
  IF i > Len(callees) THEN path
  ELSE LET sub_path == trace_path_from(callees[i], visited)
       IN IF sub_path # <<>> THEN path \o sub_path
          ELSE TraceCallees(path, callees, i + 1, visited)

\* The orders in which a Python set of these elements can be iterated.
RECURSIVE IterationOrders(_)
IterationOrders(S) ==
  IF S = {} THEN {<<>>}
  ELSE UNION {{<<x>> \o o : o \in IterationOrders(S \ {x})} : x \in S}

\* A filter that lets every declared entry point through.
AnyEntryPoint(entry_point) == TRUE

\* get_entry_point_paths: "if entry_point in self.all_functions".
IsKnownFunction(entry_point) == entry_point \in DOMAIN all_functions

RECURSIVE EntryPaths(_, _, _)
EntryPaths(paths, order, i) ==
  IF i > Len(order) THEN paths
  ELSE EntryPaths(IF IsKnownFunction(order[i])
                  THEN LET path == trace_path_from(order[i], {})
                       IN IF path # <<>> THEN Append(paths, path) ELSE paths
                  ELSE paths,
                  order, i + 1)

\* get_entry_point_paths, all_entry_points being iterated in the given order.
get_entry_point_paths(order) == EntryPaths(<<>>, order, 1)

\* get_summary: functions_by_file
file_functions ==
  [f \in {all_functions[n].file_path : n \in DOMAIN all_functions} \ {""} |->
     get_functions_by_file(f)]

\* The test of a derived dependency without its own-file exclusion.
IsNewDepSelfAllowed(fd, file_path, called_func) ==
  /\ called_func \in DOMAIN all_functions
  /\ all_functions[called_func].file_path # ""
  /\ all_functions[called_func].file_path \notin Range(fd[file_path])

\* The test of a derived dependency without its duplicate exclusion.
IsNewDepDuplicateAllowed(fd, file_path, called_func) ==
  /\ called_func \in DOMAIN all_functions
  /\ all_functions[called_func].file_path # ""
  /\ all_functions[called_func].file_path # file_path

\* get_summary: the two conditions under which called_file is appended.
IsNewDependency(fd, file_path, called_func) ==
  /\ called_func \in DOMAIN all_functions
  /\ all_functions[called_func].file_path # ""
  /\ all_functions[called_func].file_path # file_path
  /\ all_functions[called_func].file_path \notin Range(fd[file_path])

RECURSIVE DepsFromCalls(_, _, _, _)
DepsFromCalls(fd, file_path, calls, i) ==
  IF i > Len(calls) THEN fd
  ELSE DepsFromCalls(IF IsNewDependency(fd, file_path, calls[i])
                     THEN Put(fd, file_path,
                              Append(fd[file_path], all_functions[calls[i]].file_path))
                     ELSE fd,
                     file_path, calls, i + 1)

RECURSIVE DepsFromFunctions(_, _)
DepsFromFunctions(fd, i) ==
  IF i > Len(fn_keys) THEN fd
  ELSE LET func_name == fn_keys[i]
           file_path == all_functions[func_name].file_path
       IN DepsFromFunctions(IF file_path # "" /\ func_name \in DOMAIN call_graph
                            THEN DepsFromCalls(fd, file_path, call_graph[func_name], 1)
                            ELSE fd,
                            i + 1)

\* get_summary: file_dependencies
file_dependencies == DepsFromFunctions([f \in DOMAIN file_summaries |-> <<>>], 1)

\* One of the orders in which all_entry_points can be iterated; the fields of
\* the summary other than entry_points and the two path lists do not read it.
SomeOrder == CHOOSE order \in IterationOrders(all_entry_points) : TRUE

\* get_summary, all_entry_points being iterated in the given order.  The
\* fields function_keys and file_keys carry the key order of the dicts
\* function_details / function_calls and file_summaries.
get_summary(order) ==
  [total_files |-> Cardinality(DOMAIN file_summaries),
   total_functions |-> Cardinality(DOMAIN all_functions),
   total_dependencies |-> Cardinality(all_dependencies),
   entry_points |-> order,
   execution_paths |-> get_entry_point_paths(order),
   function_details |-> all_functions,
   function_keys |-> fn_keys,
   file_functions |-> file_functions,
   function_calls |-> call_graph,
   file_dependencies |-> file_dependencies,
   file_summaries |-> file_summaries,
   file_keys |-> file_keys,
   entry_point_paths |-> get_entry_point_paths(order)]

----------------------------------------------------------------------------
(* VisualizationGenerator._generate_dependency_mermaid: the dependency     *)
(* mapping dependencies_to_use, built from the summary's file_dependencies *)
(* and extended with the dependencies derived from function calls.         *)

function_to_file(builder_data) ==
  [n \in {m \in DOMAIN builder_data.function_details :
            "file_path" \in DOMAIN builder_data.function_details[m]} |->
     builder_data.function_details[n].file_path]

RECURSIVE CallTargets(_, _, _, _, _, _)
CallTargets(deps, builder_data, nodes_to_include, source_file, calls, i) ==
  IF i > Len(calls) THEN deps
  ELSE LET called_func == calls[i]
           f2f == function_to_file(builder_data)
           add == /\ called_func \in DOMAIN f2f
                  /\ f2f[called_func] \in nodes_to_include
                  /\ f2f[called_func] # source_file
                  /\ f2f[called_func] \notin Range(deps[source_file])
       IN CallTargets(IF add
                      THEN Put(deps, source_file, Append(deps[source_file], f2f[called_func]))
                      ELSE deps,
                      builder_data, nodes_to_include, source_file, calls, i + 1)

RECURSIVE CallDependencies(_, _, _, _)
CallDependencies(deps, builder_data, nodes_to_include, i) ==
  IF i > Len(builder_data.function_keys) THEN deps
  ELSE LET func_info == builder_data.function_details[builder_data.function_keys[i]]
       IN IF /\ "file_path" \in DOMAIN func_info
             /\ "calls" \in DOMAIN func_info
             /\ func_info.file_path \in nodes_to_include
          THEN LET source_file == func_info.file_path
                   deps0 == IF source_file \notin DOMAIN deps
                            THEN Put(deps, source_file, <<>>) ELSE deps
               IN CallDependencies(
                    CallTargets(deps0, builder_data, nodes_to_include,
                                source_file, func_info.calls, 1),
                    builder_data, nodes_to_include, i + 1)
          ELSE CallDependencies(deps, builder_data, nodes_to_include, i + 1)

dependencies_to_use(builder_data, nodes_to_include) ==
  CallDependencies(
    [k \in (DOMAIN builder_data.file_dependencies) \cap nodes_to_include |->
       builder_data.file_dependencies[k]],
    builder_data, nodes_to_include, 1)

----------------------------------------------------------------------------
(* VisualizationGenerator._generate_mermaid: the functions selected for    *)
(* the function-call diagram and the call edges emitted between them.      *)
(* The argument max_nodes = 0 stands for None: the code tests the          *)
(* truthiness of max_nodes, which is the same for both.                    *)

Max(S) == CHOOSE x \in S : \A y \in S : y <= x
Min(S) == CHOOSE x \in S : \A y \in S : x <= y

RECURSIVE SumOver(_, _)
\* sum(count[k] for k in keys), keys being a set
SumOver(count, keys) ==
  IF keys = {} THEN 0
  ELSE LET k == CHOOSE x \in keys : TRUE
       IN count[k] + SumOver(count, keys \ {k})

\* sum(1 for calls in function_calls.values() if func_name in calls)
incoming(builder_data, func_name) ==
  Cardinality({caller \in DOMAIN builder_data.function_calls :
                 func_name \in Range(builder_data.function_calls[caller])})

\* len(function_calls.get(func_name, []))
outgoing(builder_data, func_name) ==
  Len(Get(builder_data.function_calls, func_name, <<>>))

\* A ranking that gives entry points no extra weight.
no_entry_point_bonus(builder_data, func_name) == 0

\* 5 if func_name in entry_points else 0
entry_point_bonus(builder_data, func_name) ==
  IF func_name \in Range(builder_data.entry_points) THEN 5 ELSE 0

connection_count(builder_data) ==
  [func_name \in DOMAIN builder_data.function_details |->
     incoming(builder_data, func_name) + outgoing(builder_data, func_name)
       + entry_point_bonus(builder_data, func_name)]

RECURSIVE sorted_reversing_ties(_, _)
\* A descending sort that puts the later of two equal items first.
sorted_reversing_ties(items, count) ==
  IF items = <<>> THEN <<>>
  ELSE LET best == Max({count[items[i]] : i \in 1..Len(items)})
           pick == Max({i \in 1..Len(items) : count[items[i]] = best})
       IN <<items[pick]>> \o
          sorted_reversing_ties(SubSeq(items, 1, pick - 1) \o
                                SubSeq(items, pick + 1, Len(items)), count)

RECURSIVE sorted_descending(_, _)
\* sorted(count.items(), key=lambda x: x[1], reverse=True), items being the
\* keys of count in iteration order: Python's sort is stable, and with
\* reverse=True equal items keep their original order.
sorted_descending(items, count) ==
  IF items = <<>> THEN <<>>
  ELSE LET best == Max({count[items[i]] : i \in 1..Len(items)})
           pick == Min({i \in 1..Len(items) : count[items[i]] = best})
       IN <<items[pick]>> \o
          sorted_descending(SubSeq(items, 1, pick - 1) \o
                            SubSeq(items, pick + 1, Len(items)), count)

\* seq[:max_nodes + 1]
TopInclusive(seq, max_nodes) == SubSeq(seq, 1, Min({max_nodes + 1, Len(seq)}))

\* seq[:max_nodes]
Top(seq, max_nodes) == SubSeq(seq, 1, Min({max_nodes, Len(seq)}))

\* The size test alone, an unset max_nodes being read as the number 0.
function_limit_without_unset(builder_data, max_nodes) ==
  SumOver([f \in DOMAIN builder_data.file_functions |->
             Len(builder_data.file_functions[f])],
          DOMAIN builder_data.file_functions) > max_nodes

\* The test that switches the size limit of the function diagram on.
function_limit_applies(builder_data, max_nodes) ==
  /\ max_nodes # 0
  /\ SumOver([f \in DOMAIN builder_data.file_functions |->
                Len(builder_data.file_functions[f])],
             DOMAIN builder_data.file_functions) > max_nodes

top_functions(builder_data, max_nodes) ==
  Top(sorted_descending(builder_data.function_keys, connection_count(builder_data)),
      max_nodes)

functions_to_include(builder_data, max_nodes) ==
  IF function_limit_applies(builder_data, max_nodes)
  THEN Range(top_functions(builder_data, max_nodes))
  ELSE UNION {Range(builder_data.file_functions[f]) :
                f \in DOMAIN builder_data.file_functions}

\* The function nodes written into the file subgraphs.
function_nodes(builder_data, max_nodes) ==
  UNION {Range(builder_data.file_functions[f]) :
           f \in DOMAIN builder_data.file_functions}
    \cap functions_to_include(builder_data, max_nodes)

RECURSIVE CallEdgesOf(_, _, _, _, _)
\* The inner loop over the callees of func_name.
CallEdgesOf(builder_data, included, func_name, callees, i) ==
  IF i > Len(callees) THEN <<>>
  ELSE (IF callees[i] \in included /\ callees[i] \in DOMAIN builder_data.function_details
        THEN << <<func_name, callees[i]>> >> ELSE <<>>)
       \o CallEdgesOf(builder_data, included, func_name, callees, i + 1)

RECURSIVE CallEdges(_, _, _)
\* The loop over function_calls.items() that writes the "calls" arrows.
CallEdges(builder_data, included, i) ==
  IF i > Len(builder_data.function_keys) THEN <<>>
  ELSE LET func_name == builder_data.function_keys[i]
       IN (IF func_name \in included
           THEN CallEdgesOf(builder_data, included, func_name,
                            builder_data.function_calls[func_name], 1)
           ELSE <<>>)
          \o CallEdges(builder_data, included, i + 1)

\* _generate_mermaid(builder_data, max_nodes): what the diagram shows.
generate_mermaid(builder_data, max_nodes) ==
  IF DOMAIN builder_data.function_details = {} /\ DOMAIN builder_data.file_functions = {}
  THEN [kind |-> "function", max_nodes |-> max_nodes, builder_data |-> builder_data,
        limited |-> FALSE, selected |-> {}, nodes |-> {}, edges |-> <<>>]
  ELSE LET included == functions_to_include(builder_data, max_nodes)
       IN [kind |-> "function", max_nodes |-> max_nodes, builder_data |-> builder_data,
           limited |-> function_limit_applies(builder_data, max_nodes),
           selected |-> included,
           nodes |-> function_nodes(builder_data, max_nodes),
           edges |-> CallEdges(builder_data, included, 1)]

----------------------------------------------------------------------------
(* VisualizationGenerator._generate_dependency_mermaid: the files selected *)
(* for the file-dependency diagram and the edges emitted between them.     *)

\* incoming + outgoing of the file ranking
file_connection_count(builder_data) ==
  [file_path \in DOMAIN builder_data.file_summaries |->
     Cardinality({f \in DOMAIN builder_data.file_dependencies :
                    file_path \in Range(builder_data.file_dependencies[f])})
     + Len(Get(builder_data.file_dependencies, file_path, <<>>))]

file_limit_applies(builder_data, max_nodes) ==
  max_nodes # 0 /\ Cardinality(DOMAIN builder_data.file_summaries) > max_nodes

nodes_to_include(builder_data, max_nodes) ==
  IF file_limit_applies(builder_data, max_nodes)
  THEN Range(Top(sorted_descending(builder_data.file_keys,
                                   file_connection_count(builder_data)),
                 max_nodes))
  ELSE DOMAIN builder_data.file_summaries

\* "node_n__" + file_path with each of / \ . - replaced by _
safe_name(file_path) ==
  CASE file_path = "main.py" -> "node_n__main_py"
    [] file_path = "core/analyzer.py" -> "node_n__core_analyzer_py"
    [] file_path = "utils.py" -> "node_n__utils_py"
    [] file_path = "core/builder.py" -> "node_n__core_builder_py"
    [] file_path = "a.py" -> "node_n__a_py"
    [] file_path = "b.py" -> "node_n__b_py"

\* The key of core_files that the elif chain of substring tests assigns to a
\* file path ("none" where no test matches).
core_key(file_path) ==
  CASE file_path = "main.py" -> "main"
    [] file_path = "core/analyzer.py" -> "analyzer"
    [] file_path = "core/builder.py" -> "builder"
    [] OTHER -> "none"

\* The hard-coded flow between core files, as (source key, target key).
CoreFlow ==
  << <<"run_analyzer", "main">>, <<"main", "analyzer">>, <<"analyzer", "explorer">>,
     <<"analyzer", "builder">>, <<"analyzer", "visualizer">>,
     <<"test_output", "visualizer">> >>

RECURSIVE AddCoreFlow(_, _, _)
AddCoreFlow(deps, included, i) ==
  IF i > Len(CoreFlow) THEN deps
  ELSE LET src == {f \in included : core_key(f) = CoreFlow[i][1]}
           dst == {f \in included : core_key(f) = CoreFlow[i][2]}
       IN IF src # {} /\ dst # {}
          THEN LET s == CHOOSE f \in src : TRUE
                   t == CHOOSE f \in dst : TRUE
                   deps0 == IF s \notin DOMAIN deps THEN Put(deps, s, <<>>) ELSE deps
               IN AddCoreFlow(Put(deps0, s, Append(deps0[s], t)), included, i + 1)
          ELSE AddCoreFlow(deps, included, i + 1)

\* dependencies_to_use after the step taken when it holds no dependency.
with_fallback(deps, included) ==
  IF SumOver([f \in DOMAIN deps |-> Len(deps[f])], DOMAIN deps) = 0
  THEN AddCoreFlow(deps, included, 1)
  ELSE deps

RECURSIVE ConnectionsOf(_, _, _, _, _, _)
\* The inner loop over the dependencies of file_path; added is the list of
\* connection keys written so far.
ConnectionsOf(out, added, included, file_path, dependencies, i) ==
  IF i > Len(dependencies) THEN [out |-> out, added |-> added]
  ELSE LET dependency == dependencies[i]
           connection == safe_name(file_path) \o "_" \o safe_name(dependency)
       IN IF dependency \in included /\ connection \notin added
          THEN ConnectionsOf(Append(out, <<file_path, dependency>>),
                             added \cup {connection},
                             included, file_path, dependencies, i + 1)
          ELSE ConnectionsOf(out, added, included, file_path, dependencies, i + 1)

RECURSIVE Connections(_, _, _, _, _)
\* The loop over dependencies_to_use.items() that writes the arrows.
Connections(out, added, deps, included, keys) ==
  IF keys = <<>> THEN out
  ELSE LET r == IF Head(keys) \in DOMAIN deps
                THEN ConnectionsOf(out, added, included, Head(keys), deps[Head(keys)], 1)
                ELSE [out |-> out, added |-> added]
       IN Connections(r.out, r.added, deps, included, Tail(keys))

\* _generate_dependency_mermaid(builder_data, max_nodes): what the diagram shows.
generate_dependency_mermaid(builder_data, max_nodes) ==
  IF DOMAIN builder_data.file_summaries = {}
  THEN [kind |-> "dependency", max_nodes |-> max_nodes, builder_data |-> builder_data,
        limited |-> FALSE, selected |-> {}, nodes |-> {}, edges |-> <<>>]
  ELSE LET included == nodes_to_include(builder_data, max_nodes)
           deps == with_fallback(dependencies_to_use(builder_data, included), included)
       IN [kind |-> "dependency", max_nodes |-> max_nodes, builder_data |-> builder_data,
           limited |-> file_limit_applies(builder_data, max_nodes),
           selected |-> included,
           nodes |-> included,
           edges |-> Connections(<<>>, {}, deps, included, builder_data.file_keys)]

----------------------------------------------------------------------------
\* No diagram has been generated.
\* No call of _analyze_code has begun.
NoAnalysis == [pc |-> "idle"]

\* analyze_project has not reached its loop over the code files.
NoRun == [pc |-> "start"]

NoDiagram == [kind |-> "none"]

\* No query has been made.
NoQueries == [returned |-> <<>>, last |-> "none"]

\* No replay of the history has begun.
NoReplay == [len |-> 0]

Init ==
  /\ all_functions = EmptyDict
  /\ fn_keys = <<>>
  /\ all_dependencies = {}
  /\ all_entry_points = {}
  /\ file_summaries = EmptyDict
  /\ file_keys = <<>>
  /\ call_graph = EmptyDict
  /\ reverse_call_graph = EmptyDict
  /\ log = <<>>
  /\ diagram = NoDiagram
  /\ first_pass = NoReplay
  /\ observed = NoQueries
  /\ analyzer = NoAnalysis
  /\ run = NoRun

Next == add_file_analysis

Spec == Init /\ [][Next]_vars

----------------------------------------------------------------------------
(* A run of analyze_project: the discovered files are ingested one after   *)
(* another, then the diagrams are generated from the summary.              *)

\* Number of files discovered in one project.
MaxFiles == 3

\* Largest max_nodes handed to a diagram generator.
MaxNodes == 2

\* The code files in discovery order.
ProjectFiles == <<"main.py", "core/analyzer.py", "utils.py", "core/builder.py">>

ProjectCallLists ==
  { <<>>, <<"ext", "helper">>, <<"helper", "helper">>, <<"main", "util", "main">> }

ProjectAnalyses == {FunctionAnalysis(n, c) : n \in Names, c \in ProjectCallLists}

AnalyzeFile(analysis) ==
  /\ diagram = NoDiagram
  /\ Len(log) < Min({MaxFiles, Len(ProjectFiles)})
  /\ Ingest(ProjectFiles[Len(log) + 1], analysis)
  /\ UNCHANGED <<diagram, first_pass, observed, analyzer, run>>

analyze_project == \E analysis \in ProjectAnalyses : AnalyzeFile(analysis)

\* generate_function_diagram, the Graphviz part: a node for every function of
\* every file of file_functions and an edge for every call whose callee is a
\* key of function_details; max_nodes is not read.
generate_function_graphviz(builder_data, max_nodes) ==
  LET fc == builder_data.function_calls
      ff == builder_data.file_functions
  IN [graphviz_nodes |-> UNION {Range(ff[file_path]) : file_path \in DOMAIN ff},
      graphviz_edges |->
         UNION {{<<f, fc[f][i]>> : i \in 1..Len(fc[f])} : f \in DOMAIN fc}
           \cap ((DOMAIN fc) \X (DOMAIN builder_data.function_details))]

\* generate_dependency_diagram, the Graphviz part: the selection of the
\* Mermaid part is computed again, then a node for every selected file and an
\* edge for every listed dependency between two selected files.
generate_dependency_graphviz(builder_data, max_nodes) ==
  LET fd == builder_data.file_dependencies
      included == nodes_to_include(builder_data, max_nodes)
  IN [graphviz_nodes |-> included \cap DOMAIN builder_data.file_summaries,
      graphviz_edges |->
         UNION {{<<f, fd[f][i]>> : i \in 1..Len(fd[f])} : f \in (DOMAIN fd) \cap included}
           \cap (included \X (included \cap DOMAIN builder_data.file_summaries))]

generate_function_diagram ==
  /\ diagram = NoDiagram
  /\ \E max_nodes \in 0..MaxNodes :
       LET builder_data == get_summary(SomeOrder)
       IN diagram' = generate_mermaid(builder_data, max_nodes)
                       @@ generate_function_graphviz(builder_data, max_nodes)
  /\ UNCHANGED <<builder_vars, first_pass, observed, analyzer, run>>

generate_dependency_diagram ==
  /\ diagram = NoDiagram
  /\ \E max_nodes \in 0..MaxNodes :
       LET builder_data == get_summary(SomeOrder)
       IN diagram' = generate_dependency_mermaid(builder_data, max_nodes)
                       @@ generate_dependency_graphviz(builder_data, max_nodes)
  /\ UNCHANGED <<builder_vars, first_pass, observed, analyzer, run>>

NextProject == analyze_project \/ generate_function_diagram \/ generate_dependency_diagram

SpecProject == Init /\ [][NextProject]_vars

----------------------------------------------------------------------------
(* What the ingestion history reported *)

DictEntries(analysis) ==
  LET fs == Get(analysis, "functions", <<>>)
  IN {k \in 1..Len(fs) : IsDict(fs[k])}

ReportedNames(analysis) ==
  {Get(Get(analysis, "functions", <<>>)[k], "name", "unknown") : k \in DictEntries(analysis)}

AllReported == UNION {ReportedNames(log[i].analysis) : i \in 1..Len(log)}

\* The index of the most recent ingestion that reported f.
LastIngestOf(f) == Max({i \in 1..Len(log) : f \in ReportedNames(log[i].analysis)})

\* The entry for f in that ingestion (the last one, if it names f twice).
LastEntryOf(f) ==
  LET fs == Get(log[LastIngestOf(f)].analysis, "functions", <<>>)
  IN fs[Max({k \in DictEntries(log[LastIngestOf(f)].analysis) :
               Get(fs[k], "name", "unknown") = f})]

NoRepeat(p) == \A i, j \in 1..Len(p) : p[i] = p[j] => i = j

\* Every path get_entry_point_paths can return, whatever the iteration order.
ReturnedPaths ==
  UNION {Range(get_entry_point_paths(order)) : order \in IterationOrders(all_entry_points)}

----------------------------------------------------------------------------
\* C1 (last-write-wins): the record stored for a function identifier f is the
\* one of the most recent ingestion that reported f, with that ingestion's
\* file as file_path; f is listed by get_functions_by_file for that file and
\* for no other, and identifiers never reported have no record.
C1_LastWriteWins ==
  /\ DOMAIN all_functions = AllReported
  /\ \A f \in AllReported :
       LET e == LastEntryOf(f)
           file == log[LastIngestOf(f)].file_path
       IN /\ all_functions[f].file_path = file
          /\ all_functions[f].description = Get(e, "description", "")
          /\ all_functions[f].inputs = Get(e, "inputs", "")
          /\ all_functions[f].outputs = Get(e, "outputs", "")
          /\ all_functions[f].calls = Get(e, "calls", <<>>)
          /\ \A A \in Files : f \in Range(get_functions_by_file(A)) <=> A = file

\* Some f was ingested from one file and later from another.
C1_Witness ==
  \E i, j \in 1..Len(log) : \E f \in ReportedNames(log[i].analysis) :
     /\ i < j
     /\ f \in ReportedNames(log[j].analysis)
     /\ log[i].file_path # log[j].file_path
     /\ all_functions[f].file_path = log[j].file_path
     /\ f \notin Range(get_functions_by_file(log[i].file_path))

\* C2 (path acyclicity): no path returned by get_entry_point_paths holds an
\* identifier more than once, call graphs with self-calls and cycles included.
C2_PathAcyclic == \A p \in ReturnedPaths : NoRepeat(p)

\* A returned path of three nodes holds a function that calls itself and ends
\* in a function that calls the entry point, closing a cycle of three.
C2_Witness ==
  \E p \in ReturnedPaths :
     /\ Len(p) >= 3
     /\ \E k \in 1..Len(p) : p[k] \in Range(call_graph[p[k]])
     /\ p[1] \in Range(call_graph[p[Len(p)]])

\* C3 (path validity): in every returned path each element after the first is
\* in the call list of its predecessor and is a key of all_functions.
C3_PathValid ==
  \A p \in ReturnedPaths : \A k \in 1..(Len(p) - 1) :
     /\ p[k + 1] \in Range(call_graph[p[k]])
     /\ p[k + 1] \in DOMAIN all_functions

\* A returned path of two or more nodes passes a function whose call list
\* also names a function that was never ingested.
C3_Witness ==
  \E p \in ReturnedPaths : \E k \in 1..(Len(p) - 1) :
     \E c \in Range(call_graph[p[k]]) : c \notin DOMAIN all_functions

\* C4: get_entry_point_paths returns exactly one path, non-empty and starting
\* with it, for each declared entry point that is a key of all_functions, and
\* no path for any other identifier.
C4_OnePathPerKnownEntry ==
  \A order \in IterationOrders(all_entry_points) :
     LET paths == get_entry_point_paths(order)
     IN /\ \A i \in 1..Len(paths) :
             /\ paths[i] # <<>>
             /\ paths[i][1] \in all_entry_points \cap DOMAIN all_functions
        /\ \A e \in all_entry_points \cap DOMAIN all_functions :
             Cardinality({i \in 1..Len(paths) : paths[i] # <<>> /\ paths[i][1] = e}) = 1

\* Two declared entry points are functions, a third was never ingested.
C4_Witness ==
  /\ Cardinality(all_entry_points \cap DOMAIN all_functions) >= 2
  /\ all_entry_points \ DOMAIN all_functions # {}

\* The walk of C5: from the last node of the path, move to the first callee in
\* call-list order that is a key of all_functions and not on the path.
RECURSIVE GreedyWalk(_)
GreedyWalk(path) ==
  LET calls == call_graph[path[Len(path)]]
      next == {i \in 1..Len(calls) :
                 calls[i] \in DOMAIN all_functions /\ calls[i] \notin Range(path)}
  IN IF next = {} THEN path ELSE GreedyWalk(Append(path, calls[Min(next)]))

\* C5 (greedy first-callee rule): every returned path equals the iterative
\* walk from its entry point, and its last node has no callee that is a key
\* of all_functions and outside the path.
C5_GreedyFirstCallee ==
  \A order \in IterationOrders(all_entry_points) :
     LET known == SelectSeq(order, LAMBDA e : e \in DOMAIN all_functions)
         paths == get_entry_point_paths(order)
     IN /\ Len(paths) = Len(known)
        /\ \A i \in 1..Len(paths) :
             /\ paths[i] = GreedyWalk(<<known[i]>>)
             /\ \A c \in Range(call_graph[paths[i][Len(paths[i])]]) :
                  c \in DOMAIN all_functions => c \in Range(paths[i])

\* A returned path in which a node's first callee was passed over for being on
\* the path already, and a later callee was taken.
C5_Witness ==
  \E p \in ReturnedPaths : \E k \in 1..(Len(p) - 1) :
     call_graph[p[k]][1] \in Range(SubSeq(p, 1, k)) /\ call_graph[p[k]][1] # p[k + 1]

\* The file that currently owns each function, per all_functions.
Owner(f) == all_functions[f].file_path

\* C6 (no self-dependency): in the file_dependencies mapping of get_summary no
\* file is in its own dependency list.
C6_NoSelfDependency ==
  LET fd == get_summary(SomeOrder).file_dependencies
  IN \A S \in DOMAIN fd : S \notin Range(fd[S])

\* A function calls a function of its own file (another one, known to the
\* builder), and the file's dependency list is the empty list all the same.
C6_Witness ==
  \E f, g \in DOMAIN all_functions :
     /\ f # g
     /\ g \in Range(call_graph[f])
     /\ Owner(f) = Owner(g)
     /\ file_dependencies[Owner(f)] = <<>>

\* C7: for distinct ingested files S and T, T is in file_dependencies[S] iff
\* a function currently owned by S has in its call list a function currently
\* owned by T; T is listed at most once.
C7_DependencyIffCrossFileCall ==
  LET fd == get_summary(SomeOrder).file_dependencies
  IN /\ DOMAIN fd = DOMAIN file_summaries
     /\ \A S \in DOMAIN fd :
          /\ NoRepeat(fd[S])
          /\ \A T \in (DOMAIN fd) \ {S} :
               T \in Range(fd[S]) <=>
                 \E f, g \in DOMAIN all_functions :
                    /\ Owner(f) = S
                    /\ Owner(g) = T
                    /\ g \in Range(all_functions[f].calls)

\* A file depends on another through two call entries, and the other file
\* does not depend on it.
C7_Witness ==
  \E S, T \in DOMAIN file_summaries :
     /\ S # T
     /\ file_dependencies[S] = <<T>>
     /\ file_dependencies[T] = <<>>
     /\ \E f, g \in DOMAIN all_functions :
          /\ Owner(f) = S
          /\ Owner(g) = T
          /\ Cardinality({i \in 1..Len(call_graph[f]) : call_graph[f][i] = g}) >= 2

\* C8 (explicit dependencies are kept): every entry of the "dependencies" list
\* of a file's analysis result is in the file-dependency mapping derived for
\* that file, in the summary and in the dependency view built from it.
C8_ExplicitDependenciesKept ==
  LET builder_data == get_summary(SomeOrder)
      deps == dependencies_to_use(builder_data, DOMAIN builder_data.file_summaries)
  IN \A i \in 1..Len(log) :
       \A d \in Range(Get(log[i].analysis, "dependencies", <<>>)) :
          /\ log[i].file_path \in DOMAIN deps
          /\ d \in Range(deps[log[i].file_path])

ExampleLog ==
  << [file_path |-> "a.py", analysis |-> FunctionAnalysis("main", <<"helper">>)],
     [file_path |-> "b.py", analysis |-> FunctionAnalysis("helper", <<>>)] >>

\* C10 as claimed: after the example, function_calls is {main: [helper]},
\* file_dependencies is {a.py: [b.py]}, entry_point_paths is [[main, helper]].
C10_ExampleAsClaimed ==
  log = ExampleLog =>
    \A order \in IterationOrders(all_entry_points) :
       LET s == get_summary(order)
       IN /\ s.function_calls = [f \in {"main"} |-> <<"helper">>]
          /\ s.file_dependencies = [f \in {"a.py"} |-> <<"b.py">>]
          /\ s.entry_point_paths = << <<"main", "helper">> >>

\* C10 as amended: after the example, function_calls is
\* {main: [helper], helper: []}, file_dependencies is {a.py: [b.py], b.py: []}
\* and entry_point_paths is [[main, helper]].
C10_ExampleAsBuilt ==
  log = ExampleLog =>
    \A order \in IterationOrders(all_entry_points) :
       LET s == get_summary(order)
       IN /\ s.function_calls =
               [f \in {"main", "helper"} |-> IF f = "main" THEN <<"helper">> ELSE <<>>]
          /\ s.file_dependencies =
               [f \in {"a.py", "b.py"} |-> IF f = "a.py" THEN <<"b.py">> ELSE <<>>]
          /\ s.entry_point_paths = << <<"main", "helper">> >>

\* The example has been ingested.
C10_Witness == log = ExampleLog /\ all_entry_points = {"main"} /\ fn_keys = <<"main", "helper">>

----------------------------------------------------------------------------
(* One builder fed a sequence of analysis results and then the same        *)
(* sequence once more.                                                     *)

FirstPass == first_pass = NoReplay /\ add_file_analysis

\* Number of ingestions of the sequence that is fed twice.
PassLength == IF first_pass = NoReplay THEN Len(log) ELSE first_pass.len

\* The next add_file_analysis call of the second pass; its first call
\* records the function tables the first pass has left.
ReplayAnalysis ==
  /\ PassLength > 0
  /\ Len(log) < 2 * PassLength
  /\ Ingest(log[Len(log) - PassLength + 1].file_path,
            log[Len(log) - PassLength + 1].analysis)
  /\ first_pass' = IF first_pass = NoReplay
                   THEN [len |-> Len(log), all_functions |-> all_functions,
                         call_graph |-> call_graph]
                   ELSE first_pass
  /\ UNCHANGED <<diagram, observed, analyzer, run>>

NextReplay == FirstPass \/ ReplayAnalysis

SpecReplay == Init /\ [][NextReplay]_vars

----------------------------------------------------------------------------
(* What a generated diagram is compared with *)

\* A diagram has been generated.
Generated == diagram.kind \in {"function", "dependency"}

FunctionDiagram == diagram.kind = "function"
DependencyDiagram == diagram.kind = "dependency"

\* The summary the diagram was generated from.
builder_data == diagram.builder_data

\* Number of nodes of the input graph of the generated diagram.
NodeCount ==
  IF FunctionDiagram THEN Cardinality(DOMAIN builder_data.function_details)
  ELSE Cardinality(DOMAIN builder_data.file_summaries)

----------------------------------------------------------------------------
\* C11: when max_nodes is a positive integer, the set of nodes selected for
\* a view (functions in the function-call view, files in the file-dependency
\* view) and the nodes drawn have at most max_nodes elements.
C11_BoundedSelection ==
  (Generated /\ diagram.max_nodes > 0) =>
     /\ Cardinality(diagram.selected) <= diagram.max_nodes
     /\ Cardinality(diagram.nodes) <= diagram.max_nodes

\* A function view cut down from three functions to exactly max_nodes = 2.
C11_Witness ==
  /\ FunctionDiagram
  /\ diagram.max_nodes = 2
  /\ NodeCount = 3
  /\ Cardinality(diagram.selected) = 2
  /\ Cardinality(diagram.nodes) = 2

----------------------------------------------------------------------------
\* The summary with the calls to identifiers that are no key of
\* function_details taken out of every call list.
ResolvableOnly(data) ==
  [data EXCEPT !.function_calls =
     [f \in DOMAIN @ |->
        SelectSeq(@[f], LAMBDA callee : callee \in DOMAIN data.function_details)]]

\* The nodes of the input graph of the generated diagram.
AllNodes ==
  IF FunctionDiagram THEN DOMAIN builder_data.function_details
  ELSE DOMAIN builder_data.file_summaries

\* The call edges of the input whose callee is a key of function_details.
InputCallEdges ==
  LET fc == builder_data.function_calls
  IN UNION {{<<f, fc[f][i]>> : i \in 1..Len(fc[f])} : f \in DOMAIN fc}
       \cap (AllNodes \X AllNodes)

\* The file-to-file edges of the input mapping file_dependencies.
InputFileEdges ==
  LET fd == builder_data.file_dependencies
  IN UNION {{<<f, fd[f][i]>> : i \in 1..Len(fd[f])} : f \in DOMAIN fd}

InputEdges == IF FunctionDiagram THEN InputCallEdges ELSE InputFileEdges

\* The emitted edges that leave node n, in the order of emission.
EmittedFrom(n) == SelectSeq(diagram.edges, LAMBDA e : e[1] = n)

----------------------------------------------------------------------------
\* C13: the score that ranks a function is inDegree + outDegree + entry-point
\* bonus over the edges whose both endpoints are keys of function_details:
\* calls to identifiers that were never ingested do not raise the score, so
\* the scores are those of the graph without such calls.
C13_ScoreCountsResolvableOnly ==
  (FunctionDiagram /\ diagram.limited) =>
     connection_count(builder_data) = connection_count(ResolvableOnly(builder_data))

----------------------------------------------------------------------------
\* The score that ranks node n of the generated diagram.
Score(n) ==
  IF FunctionDiagram THEN connection_count(builder_data)[n]
  ELSE file_connection_count(builder_data)[n]

\* The iteration order of the ranked dict: function_details, file_summaries.
KeyOrder ==
  IF FunctionDiagram THEN builder_data.function_keys ELSE builder_data.file_keys

Index(n) == CHOOSE i \in 1..Len(KeyOrder) : KeyOrder[i] = n

\* C14: nodes are ranked by score descending with ties broken by iteration
\* order: a selected node has a higher score than every node left out, or
\* the same score and an earlier place in the iteration (first-ingestion)
\* order of function_details.
C14_StableRanking ==
  (Generated /\ diagram.limited) =>
     \A a \in diagram.selected : \A b \in AllNodes \ diagram.selected :
        \/ Score(a) > Score(b)
        \/ Score(a) = Score(b) /\ Index(a) < Index(b)

\* Two functions of equal score of which only one fits within max_nodes: the
\* one ingested first is selected.
C14_Witness ==
  /\ FunctionDiagram
  /\ diagram.limited
  /\ diagram.max_nodes = 1
  /\ Len(fn_keys) = 2
  /\ Score(fn_keys[1]) = Score(fn_keys[2])
  /\ diagram.selected = {fn_keys[1]}

----------------------------------------------------------------------------
\* The edges of the input graph whose both endpoints are selected nodes.
EdgesBetweenSelected ==
  {e \in InputEdges : e[1] \in diagram.selected /\ e[2] \in diagram.selected}

\* C15: the edges emitted for a size-limited view are exactly the edges of
\* the input graph whose both endpoints are selected nodes: no emitted edge
\* has an unselected or unresolvable endpoint, and no edge between two
\* selected resolvable nodes is omitted.
C15_EdgesBetweenSelected ==
  (Generated /\ diagram.limited) => Range(diagram.edges) = EdgesBetweenSelected

----------------------------------------------------------------------------
\* in + out, as the ranking of the function view counts them.
RawDegree(f) == incoming(builder_data, f) + outgoing(builder_data, f)

\* C16: of two functions with equal raw degree (in + out) of which exactly
\* one is a declared entry point, the entry point is ranked at least as high
\* and is never left out by max_nodes while the other is included; an entry
\* point with 0 edges scores 5 and is selected before a function with 3
\* edges that is no entry point, which scores 3.
C16_EntryPointBias ==
  (FunctionDiagram /\ diagram.limited) =>
     \A e \in AllNodes \cap Range(builder_data.entry_points) :
     \A n \in AllNodes \ Range(builder_data.entry_points) :
        /\ RawDegree(e) = RawDegree(n) =>
             /\ Score(e) >= Score(n)
             /\ n \in diagram.selected => e \in diagram.selected
        /\ (RawDegree(e) = 0 /\ RawDegree(n) = 3) =>
             /\ Score(e) = 5 /\ Score(n) = 3
             /\ n \in diagram.selected => e \in diagram.selected

\* max_nodes = 1, a function with 3 edges that is no entry point ingested
\* first, an entry point without edges second: the entry point is selected.
C16_Witness ==
  /\ FunctionDiagram
  /\ diagram.limited
  /\ diagram.max_nodes = 1
  /\ Len(fn_keys) = 2
  /\ fn_keys[1] \notin all_entry_points /\ RawDegree(fn_keys[1]) = 3
  /\ fn_keys[2] \in all_entry_points /\ RawDegree(fn_keys[2]) = 0
  /\ diagram.selected = {fn_keys[2]}

----------------------------------------------------------------------------
\* C17: in the rendered (ranked) function-call graph each (caller, callee)
\* pair is emitted at most once, even when the caller's call list names the
\* same callee several times.
C17_NoMultiEdges ==
  (FunctionDiagram /\ diagram.limited) => NoRepeat(diagram.edges)

----------------------------------------------------------------------------
\* The function tables of a builder before its first ingestion.
NewTables ==
  [all_functions |-> EmptyDict, fn_keys |-> <<>>,
   call_graph |-> EmptyDict, reverse_call_graph |-> EmptyDict]

RECURSIVE TablesAfter(_, _)
\* The function tables of a builder that started with tables b and was fed
\* the sequence seq of (file, analysis) pairs.
TablesAfter(b, seq) ==
  IF seq = <<>> THEN b
  ELSE TablesAfter(ProcessFunctions(b, Get(Head(seq).analysis, "functions", <<>>), 1,
                                    Head(seq).file_path),
                   Tail(seq))

\* The second pass over the sequence is complete.
Replayed == first_pass # NoReplay /\ Len(log) = 2 * first_pass.len

\* C18: all_functions and call_graph depend only on the sequence of
\* (file, analysis) pairs ingested: a second builder fed the same sequence
\* holds identical contents, and feeding the same sequence a second time
\* into a builder that already ingested it leaves all_functions and
\* call_graph as they were after the first pass.
C18_MergeDeterminism ==
  /\ all_functions = TablesAfter(NewTables, log).all_functions
  /\ call_graph = TablesAfter(NewTables, log).call_graph
  /\ Replayed => /\ all_functions = first_pass.all_functions
                 /\ call_graph = first_pass.call_graph

\* A sequence of two results that report the same function with different
\* call lists from different files has been fed twice: the second pass
\* rewrote the record and restored it.
C18_Witness ==
  /\ Replayed
  /\ first_pass.len = 2
  /\ log[1].file_path # log[2].file_path
  /\ \E n \in ReportedNames(log[1].analysis) \cap ReportedNames(log[2].analysis) :
        /\ n \in DOMAIN call_graph
        /\ call_graph[n] # <<>>
        /\ log[1].analysis # log[2].analysis

----------------------------------------------------------------------------
\* The analysis results that lack a top-level key or a key of a function entry.
WithMissingKeys ==
  {analysis \in Analyses :
     \/ DOMAIN analysis # {"summary", "dependencies", "entry_points", "functions"}
     \/ \E k \in DictEntries(analysis) :
          DOMAIN analysis.functions[k] #
            {"name", "description", "inputs", "outputs", "calls"}}

\* C19: add_file_analysis runs to its end for an analysis result in which
\* any subset of keys is missing (the file has its summary and every named
\* entry its record), and a function entry that lacks description, inputs,
\* outputs or calls is stored with the empty string for the first three and
\* the empty list for calls.
C19_MissingKeysTolerated ==
  /\ \A i \in 1..Len(log) :
       log[i].analysis \in WithMissingKeys =>
          /\ log[i].file_path \in DOMAIN file_summaries
          /\ ReportedNames(log[i].analysis) \subseteq DOMAIN all_functions
          /\ ReportedNames(log[i].analysis) \subseteq DOMAIN call_graph
  /\ \A n \in DOMAIN all_functions :
       LET func_data == LastEntryOf(n)
       IN /\ "description" \notin DOMAIN func_data => all_functions[n].description = ""
          /\ "inputs" \notin DOMAIN func_data => all_functions[n].inputs = ""
          /\ "outputs" \notin DOMAIN func_data => all_functions[n].outputs = ""
          /\ "calls" \notin DOMAIN func_data =>
               all_functions[n].calls = <<>> /\ call_graph[n] = <<>>

\* A result without any key, then a result whose entry for helper holds the
\* name alone: helper is stored with the four defaults.
C19_Witness ==
  /\ Len(log) = 2
  /\ log[1].analysis = EmptyDict
  /\ "helper" \in DOMAIN all_functions
  /\ DOMAIN LastEntryOf("helper") = {"name"}
  /\ all_functions["helper"].description = ""
  /\ all_functions["helper"].inputs = ""
  /\ all_functions["helper"].outputs = ""
  /\ all_functions["helper"].calls = <<>>
  /\ call_graph["helper"] = <<>>

----------------------------------------------------------------------------
\* The index of the most recent ingestion of file f.
LastIngestOfFile(f) == Max({i \in 1..Len(log) : log[i].file_path = f})

\* The items of the lists that the ingested results hold under key.
AllListed(key) ==
  UNION {Range(Get(log[i].analysis, key, <<>>)) : i \in 1..Len(log)}

\* A result without 'functions', 'dependencies' or 'entry_points' adds no
\* functions, dependencies or entry points: the builder holds what the
\* results that have these keys list, and nothing else.
MissingListsAddNothing ==
  /\ DOMAIN all_functions = AllReported
  /\ DOMAIN call_graph = AllReported
  /\ all_dependencies = AllListed("dependencies")
  /\ all_entry_points = AllListed("entry_points")

----------------------------------------------------------------------------
\* Number of occurrences of x in the list seq.
Count(seq, x) == Cardinality({i \in 1..Len(seq) : seq[i] = x})

\* Every name that is a caller or a callee in either graph.
GraphNames ==
  (DOMAIN call_graph) \cup (DOMAIN reverse_call_graph)
    \cup UNION {Range(call_graph[g]) : g \in DOMAIN call_graph}
    \cup UNION {Range(reverse_call_graph[f]) : f \in DOMAIN reverse_call_graph}

\* C21: the reverse call graph is the inverse of the call graph in every
\* reachable state: g occurs in get_function_callers(f) exactly as often as
\* f occurs in get_function_callees(g), and not at all when f is not in g's
\* current call list.
C21_ReverseIsInverse ==
  \A f \in GraphNames : \A g \in GraphNames :
     Count(get_function_callers(f), g) = Count(get_function_callees(g), f)

----------------------------------------------------------------------------
(* A builder whose queries are called between ingestions.  A caller keeps  *)
(* the summaries it was handed.                                            *)

\* Number of summaries requested from one builder.
MaxSummaries == 2

QueryAnalyses ==
  { FunctionAnalysis("main", <<"helper">>),
    FunctionAnalysis("helper", <<"main", "util">>),
    FunctionAnalysis("util", <<>>),
    [summary |-> "s", dependencies |-> <<"os", "b.py">>,
     entry_points |-> <<"ghost", "helper">>, functions |-> <<>>] }

\* The names the queries are called with.
QueryNames == Names \cup {"ext"}

\* The file each of these analyses is the analysis of.
QueryFile(analysis) ==
  IF analysis \in {FunctionAnalysis("main", <<"helper">>), FunctionAnalysis("util", <<>>)}
  THEN "a.py" ELSE "b.py"

IngestBetweenQueries ==
  \E analysis \in QueryAnalyses : AddFileAnalysis(QueryFile(analysis), analysis)

\* A lookup that creates the missing key: d.setdefault(k, []).
after_setdefault(d, k) == IF k \in DOMAIN d THEN d ELSE Put(d, k, <<>>)

\* The dict d after d.get(k, default): the lookup leaves it as it is.
after_get(d, k) == d

\* The orders in which list(self.all_entry_points) can come out: any order
\* for a set not iterated since its last ingestion, the same order again for
\* a set left alone since its last iteration.
EntryPointOrders ==
  LET n == Len(observed.returned)
  IN IF n > 0 /\ observed.returned[n].at = Len(log)
     THEN {observed.returned[n].value.entry_points}
     ELSE IterationOrders(all_entry_points)

\* get_summary(): the caller keeps the dict it is handed.
call_get_summary ==
  /\ Len(observed.returned) < MaxSummaries
  /\ \E order \in EntryPointOrders :
       observed' = [returned |-> Append(observed.returned,
                                        [at |-> Len(log), value |-> get_summary(order)]),
                    last |-> "get_summary"]
  /\ UNCHANGED <<builder_vars, diagram, first_pass, analyzer, run>>

\* get_entry_point_paths() and _trace_path_from(func_name, set()): the set of
\* visited names is local to the call.
call_get_entry_point_paths ==
  /\ \E order \in EntryPointOrders :
       \E paths \in {get_entry_point_paths(order)} :
          observed' = [observed EXCEPT !.last = "get_entry_point_paths"]
  /\ UNCHANGED <<builder_vars, diagram, first_pass, analyzer, run>>

call_trace_path_from ==
  /\ \E func_name \in QueryNames :
       \E path \in {IF func_name \in DOMAIN all_functions
                    THEN trace_path_from(func_name, {}) ELSE <<func_name>>} :
          observed' = [observed EXCEPT !.last = "_trace_path_from"]
  /\ UNCHANGED <<builder_vars, diagram, first_pass, analyzer, run>>

call_get_function_details ==
  /\ \E func_name \in QueryNames :
       /\ all_functions' = after_get(all_functions, func_name)
       /\ \E details \in {get_function_details(func_name)} :
            observed' = [observed EXCEPT !.last = "get_function_details"]
  /\ UNCHANGED <<fn_keys, all_dependencies, all_entry_points, file_summaries,
                 file_keys, call_graph, reverse_call_graph, log, diagram, first_pass, analyzer, run>>

call_get_functions_by_file ==
  /\ \E file_path \in Files :
       \E functions \in {get_functions_by_file(file_path)} :
          observed' = [observed EXCEPT !.last = "get_functions_by_file"]
  /\ UNCHANGED <<builder_vars, diagram, first_pass, analyzer, run>>

call_get_function_callers ==
  /\ \E func_name \in QueryNames :
       /\ reverse_call_graph' = after_get(reverse_call_graph, func_name)
       /\ \E callers \in {get_function_callers(func_name)} :
            observed' = [observed EXCEPT !.last = "get_function_callers"]
  /\ UNCHANGED <<all_functions, fn_keys, all_dependencies, all_entry_points,
                 file_summaries, file_keys, call_graph, log, diagram, first_pass, analyzer, run>>

call_get_function_callees ==
  /\ \E func_name \in QueryNames :
       /\ call_graph' = after_get(call_graph, func_name)
       /\ \E callees \in {get_function_callees(func_name)} :
            observed' = [observed EXCEPT !.last = "get_function_callees"]
  /\ UNCHANGED <<all_functions, fn_keys, all_dependencies, all_entry_points,
                 file_summaries, file_keys, reverse_call_graph, log, diagram, first_pass, analyzer, run>>

NextQuery ==
  \/ IngestBetweenQueries
  \/ call_get_summary
  \/ call_get_entry_point_paths
  \/ call_trace_path_from
  \/ call_get_function_details
  \/ call_get_functions_by_file
  \/ call_get_function_callers
  \/ call_get_function_callees

SpecQuery == Init /\ [][NextQuery]_vars

----------------------------------------------------------------------------
\* The six builder fields as the ingestions alone leave them.
FieldsAsIngested ==
  LET tables == TablesAfter(NewTables, log)
      files == {log[i].file_path : i \in 1..Len(log)}
  IN /\ all_functions = tables.all_functions
     /\ call_graph = tables.call_graph
     /\ reverse_call_graph = tables.reverse_call_graph
     /\ all_entry_points = AllListed("entry_points")
     /\ all_dependencies = AllListed("dependencies")
     /\ file_summaries = [f \in files |-> summary_of(log[LastIngestOfFile(f)].analysis)]

\* C22: the queries are pure reads; however many of them have been called,
\* all_functions, call_graph, reverse_call_graph, all_entry_points,
\* all_dependencies and file_summaries are what the ingestions left, and two
\* get_summary calls with no ingestion in between return equal results.
C22_QueriesArePureReads ==
  /\ FieldsAsIngested
  /\ \A i, j \in 1..Len(observed.returned) :
       observed.returned[i].at = observed.returned[j].at =>
          observed.returned[i].value = observed.returned[j].value

\* Two summaries of a builder with two entry points and a traced path,
\* requested without an ingestion in between, and a lookup of callers made
\* after them.
C22_Witness ==
  /\ Len(observed.returned) = 2
  /\ observed.returned[1].at = Len(log)
  /\ observed.returned[2].at = Len(log)
  /\ Len(observed.returned[2].value.entry_points) >= 2
  /\ observed.returned[2].value.execution_paths # <<>>
  /\ observed.last = "get_function_callers"

----------------------------------------------------------------------------
\* What a summary handed out earlier shows now.  get_summary puts the
\* builder's own dicts all_functions, call_graph and file_summaries into the
\* dict it returns; add_file_analysis changes these dicts in place, so the
\* caller reads their present contents.  The other values are built per call.
held_summary(value) ==
  [value EXCEPT !.function_details = all_functions,
                !.function_keys = fn_keys,
                !.function_calls = call_graph,
                !.file_summaries = file_summaries,
                !.file_keys = file_keys]

\* C25: a summary returned by get_summary is a snapshot: its
\* function_details, function_calls and file_summaries are not changed by
\* add_file_analysis calls made on the same builder afterwards.
C25_SummaryIsSnapshot ==
  \A i \in 1..Len(observed.returned) :
     LET value == observed.returned[i].value
     IN /\ held_summary(value).function_details = value.function_details
        /\ held_summary(value).function_calls = value.function_calls
        /\ held_summary(value).file_summaries = value.file_summaries

----------------------------------------------------------------------------
(* Files whose function identifiers are pairwise distinct, each ingested   *)
(* once, and then ingested into a new builder in another order.            *)

\* The function that the k-th file of ProjectFiles defines.
OrderedNames == <<"main", "helper", "util", "ext">>

NumberOfFiles == Min({MaxFiles, Len(ProjectFiles), Len(OrderedNames)})

\* The call edges whose callee is a key of all_functions.
resolved_call_edges ==
  UNION {{<<f, call_graph[f][i]>> : i \in 1..Len(call_graph[f])} : f \in DOMAIN call_graph}
    \cap ((DOMAIN call_graph) \X (DOMAIN all_functions))

\* What the claim compares between two ingestion orders.
Derived ==
  [edges |-> resolved_call_edges,
   file_dependencies |-> [f \in DOMAIN file_dependencies |-> Range(file_dependencies[f])],
   paths |-> [e \in all_entry_points \cap DOMAIN all_functions |-> trace_path_from(e, {})]]

IngestDistinct ==
  /\ first_pass = NoReplay
  /\ Len(log) < NumberOfFiles
  /\ \E calls \in CallLists \cup ProjectCallLists :
       Ingest(ProjectFiles[Len(log) + 1],
              FunctionAnalysis(OrderedNames[Len(log) + 1], calls))
  /\ UNCHANGED <<diagram, first_pass, observed, analyzer, run>>

\* RelationshipBuilder(): a new builder for the second order; what the first
\* builder derived is kept for the comparison.
NewBuilder ==
  /\ first_pass = NoReplay
  /\ Len(log) >= 2
  /\ first_pass' = [len |-> Len(log), derived |-> Derived, todo |-> 1..Len(log)]
  /\ all_functions' = EmptyDict
  /\ fn_keys' = <<>>
  /\ all_dependencies' = {}
  /\ all_entry_points' = {}
  /\ file_summaries' = EmptyDict
  /\ file_keys' = <<>>
  /\ call_graph' = EmptyDict
  /\ reverse_call_graph' = EmptyDict
  /\ UNCHANGED <<log, diagram, observed, analyzer, run>>

\* The new builder ingests any of the files it has not ingested yet.
IngestInOtherOrder ==
  /\ first_pass # NoReplay
  /\ \E i \in first_pass.todo :
       /\ Ingest(log[i].file_path, log[i].analysis)
       /\ first_pass' = [first_pass EXCEPT !.todo = @ \ {i}]
  /\ UNCHANGED <<diagram, observed, analyzer, run>>

NextOrder == IngestDistinct \/ NewBuilder \/ IngestInOtherOrder

SpecOrder == Init /\ [][NextOrder]_vars

----------------------------------------------------------------------------
\* The new builder has ingested every file of the first order.
OtherOrderComplete == first_pass # NoReplay /\ first_pass.todo = {}

\* The place of function f in the ingestion order of the present builder.
IngestedAt(f) == CHOOSE i \in 1..Len(fn_keys) : fn_keys[i] = f

\* C23: for files whose function identifiers are pairwise distinct and each
\* ingested once, every ingestion order yields the same set of resolved
\* call edges, the same file_dependencies (as sets per file) and the same
\* traced path from each resolvable entry point; a call to a callee ingested
\* later than its caller is a graph edge once the callee has been ingested:
\* the caller's file depends on the callee's file and the trace from the
\* caller goes on into a callee.
C23_OrderIndependent ==
  /\ OtherOrderComplete => Derived = first_pass.derived
  /\ \A f \in DOMAIN all_functions : \A c \in Range(call_graph[f]) \cap DOMAIN all_functions :
       (IngestedAt(c) > IngestedAt(f)) =>
          /\ <<f, c>> \in Derived.edges
          /\ Owner(c) \in Range(file_dependencies[Owner(f)])
          /\ Len(trace_path_from(f, {})) >= 2

\* Three files ingested again in the reverse order, the first of them
\* calling a function of a file ingested after it.
C23_Witness ==
  /\ OtherOrderComplete
  /\ first_pass.len = 3
  /\ log[4] = log[3] /\ log[5] = log[2] /\ log[6] = log[1]
  /\ "helper" \in Range(log[1].analysis.functions[1].calls)
  /\ <<"main", "helper">> \in Derived.edges
  /\ Len(Derived.paths["main"]) >= 2
  /\ Derived.file_dependencies["main.py"] # {}

----------------------------------------------------------------------------
RECURSIVE trace_calls(_, _)
RECURSIVE CallsInLoop(_, _, _)

\* The number of invocations of _trace_path_from that one invocation
\* amounts to, itself included.
trace_calls(func_name, visited) ==
  IF func_name \in visited THEN 1
  ELSE 1 + CallsInLoop(ResolvableCallees(func_name), 1, visited \cup {func_name})

\* The invocations made by the loop "for callee in callees" from its i-th
\* iteration on; the loop ends at the first callee with a non-empty sub-path.
CallsInLoop(callees, i, visited) ==
  IF i > Len(callees) THEN 0
  ELSE trace_calls(callees[i], visited)
         + (IF trace_path_from(callees[i], visited) # <<>> THEN 0
            ELSE CallsInLoop(callees, i + 1, visited))

\* The entry points get_entry_point_paths traces from.
TracedEntryPoints == all_entry_points \cap DOMAIN all_functions

\* The number of call-list entries that name a known function.
ResolvedCalls == SumOver([f \in DOMAIN all_functions |-> Len(ResolvableCallees(f))], DOMAIN all_functions)

\* C24: path tracing terminates in every reachable builder state, self-
\* recursion and mutual recursion included: a trace from an entry point makes
\* finitely many recursive calls (no more than one per resolved call-list
\* entry, besides the first) and returns a path no longer than the number of
\* functions in all_functions.
C24_TraceTerminates ==
  \A e \in TracedEntryPoints :
     /\ Len(trace_path_from(e, {})) <= Cardinality(DOMAIN all_functions)
     /\ trace_calls(e, {}) <= 1 + ResolvedCalls

\* An entry point that calls itself is traced through every function to one
\* that calls the entry point back, with calls that were cut as cycles.
C24_Witness ==
  \E e \in TracedEntryPoints :
     LET p == trace_path_from(e, {})
     IN /\ Len(p) = Cardinality(DOMAIN all_functions)
        /\ Len(p) >= 2
        /\ e \in Range(call_graph[e])
        /\ e \in Range(call_graph[p[Len(p)]])
        /\ trace_calls(e, {}) > Len(p)

----------------------------------------------------------------------------
\* Some function owned by file S calls a function owned by file T.
CallsAcross(S, T) ==
  LET fd == builder_data.function_details
  IN \E f \in DOMAIN fd : \E c \in DOMAIN fd :
        /\ fd[f].file_path = S
        /\ fd[c].file_path = T
        /\ c \in Range(fd[f].calls)

\* T is listed in the input file_dependencies of S.
ListedDependency(S, T) ==
  /\ S \in DOMAIN builder_data.file_dependencies
  /\ T \in Range(builder_data.file_dependencies[S])

\* C26: the file-dependency view emits an edge from file S to file T only if
\* T is listed in the input file_dependencies[S] or some function owned by S
\* calls a function owned by T; for input with no such dependency among the
\* included files, whatever the file names are, the view has no file-to-file
\* edges.
C26_OnlyInputDependencies ==
  DependencyDiagram =>
     \A i \in 1..Len(diagram.edges) :
        LET S == diagram.edges[i][1]
            T == diagram.edges[i][2]
        IN ListedDependency(S, T) \/ CallsAcross(S, T)

----------------------------------------------------------------------------
\* max_nodes is a positive integer smaller than the number of nodes.
LimitRequested == Generated /\ diagram.max_nodes > 0 /\ diagram.max_nodes < NodeCount

\* No more than max_nodes nodes, and edges between selected nodes only.
WithinLimit(nodes, edges) ==
  /\ Cardinality(nodes) <= diagram.max_nodes
  /\ \A e \in edges : e[1] \in diagram.selected /\ e[2] \in diagram.selected

\* C30: generate_function_diagram applies max_nodes to every output: when
\* max_nodes is a positive integer smaller than the number of functions, the
\* Mermaid output and the Graphviz output each hold at most max_nodes
\* function nodes and only edges between the selected functions, as both
\* outputs of generate_dependency_diagram do for files.
C30_LimitOnEveryOutput ==
  (FunctionDiagram /\ LimitRequested) =>
     /\ WithinLimit(diagram.nodes, Range(diagram.edges))
     /\ WithinLimit(diagram.graphviz_nodes, diagram.graphviz_edges)

----------------------------------------------------------------------------
(* CodeAnalyzer._analyze_code: the requests to the API and their retries.   *)
(* SpecAnalyze: one call, max_retries chosen from 0..MaxRetries, every      *)
(* request ending in an exception or in a response text.                    *)

MaxRetries == 3

\* The exceptions a request can end in.
Exceptions == {"APIConnectionError", "RateLimitError"}

\* A response text: an optional Markdown fence at its start (three
\* backticks, alone or followed by json), then optional
\* text before the body, then the body: a JSON object, an object cut off
\* before its closing brace, or text without braces.
Responses ==
  [fence : {"", "fence", "fence json"}, before : {"", "prose", "{"},
   body : {"object", "cut", "text"}]

ApiOutcomes ==
  [kind : {"exception"}, error : Exceptions]
    \cup [kind : {"response"}, response : Responses]

\* What json.loads yields for the body "object".
ParsedAnalysis == FunctionAnalysis("main", <<"helper">>)

\* The minimal valid structure returned in place of a failure.
minimal_structure(summary) ==
  [functions |-> <<>>, dependencies |-> <<>>, entry_points |-> <<>>, summary |-> summary]

\* _parse_response: the opening fence is removed and the text cut at the
\* closing fence.
without_fence(response) == [response EXCEPT !.fence = ""]

\* _parse_response: the text from the first "{" to the last "}"; a text
\* without both is left as it is.
between_braces(response) ==
  IF response.body = "object" /\ response.before = "prose"
  THEN [response EXCEPT !.before = ""]
  ELSE response

json_loads(text) ==
  IF text.fence = "" /\ text.before = "" /\ text.body = "object"
  THEN [ok |-> TRUE, value |-> ParsedAnalysis]
  ELSE [ok |-> FALSE, value |-> "JSONDecodeError"]

\* _parse_response: the handler of JSONDecodeError.
on_json_decode_error(e) ==
  [raised |-> FALSE, value |-> minimal_structure("Analysis failed: JSONDecodeError")]

parse_response(response) ==
  LET loaded == json_loads(between_braces(without_fence(response)))
  IN IF loaded.ok THEN [raised |-> FALSE, value |-> loaded.value]
     ELSE on_json_decode_error(loaded.value)

\* A variant that waits after the last failed attempt as well.
retry_after_every_attempt(attempt, max_retries) == attempt < max_retries

\* _analyze_code: "if attempt < self.max_retries - 1"
retry_left(attempt, max_retries) == attempt < max_retries - 1

\* What a call has returned: a dict, or None when the loop ran out.
Pending == [kind |-> "pending"]

ReturnsNone == [kind |-> "None"]

Returns(value) == [kind |-> "dict", value |-> value]

Returned(a, result) == [a EXCEPT !.pc = "returned", !.result = result]

\* The handler "except Exception" of the attempt a.attempt, and the step of
\* the loop to the next attempt; a loop that ends returns None.
attempt_failed(a) ==
  IF retry_left(a.attempt, a.max_retries)
  THEN LET next == [a EXCEPT !.sleeps = @ + 1, !.attempt = @ + 1]
       IN IF next.attempt < next.max_retries THEN next ELSE Returned(next, ReturnsNone)
  ELSE Returned(a, Returns(minimal_structure("Analysis failed after max_retries attempts")))

\* The call _analyze_code(code, file_path) begins.
analyze_code ==
  /\ analyzer = NoAnalysis
  /\ \E max_retries \in 0..MaxRetries :
       LET a == [pc |-> "request", max_retries |-> max_retries, attempt |-> 0,
                 requests |-> <<>>, sleeps |-> 0, result |-> Pending]
       IN analyzer' = IF max_retries = 0 THEN Returned(a, ReturnsNone) ELSE a
  /\ UNCHANGED <<builder_vars, diagram, first_pass, observed, run>>

\* One iteration of "for attempt in range(self.max_retries)": the request,
\* the parsing of its response and the handling of a failure.
api_request ==
  /\ analyzer.pc = "request"
  /\ \E outcome \in ApiOutcomes :
       LET a == [analyzer EXCEPT !.requests = Append(@, outcome)]
       IN analyzer' =
            IF outcome.kind = "exception" THEN attempt_failed(a)
            ELSE LET parsed == parse_response(outcome.response)
                 IN IF parsed.raised
                    THEN \* re-raised, or raised again by the second call on
                         \* the last attempt: both reach "except Exception"
                         attempt_failed(a)
                    ELSE Returned(a, Returns(parsed.value))
  /\ UNCHANGED <<builder_vars, diagram, first_pass, observed, run>>

NextAnalyze == analyze_code \/ api_request

SpecAnalyze == Init /\ [][NextAnalyze]_vars

----------------------------------------------------------------------------
\* A call of _analyze_code with max_retries >= 1 has begun.
Attempting == analyzer.pc # "idle" /\ analyzer.max_retries >= 1

\* The i-th request ended in an exception.
Failed(i) == analyzer.requests[i].kind = "exception"

\* The i-th request was answered by a text that json.loads rejects.
Unparseable(i) ==
  /\ analyzer.requests[i].kind = "response"
  /\ ~json_loads(between_braces(without_fence(analyzer.requests[i].response))).ok

AllFailed ==
  /\ Len(analyzer.requests) = analyzer.max_retries
  /\ \A i \in 1..Len(analyzer.requests) : Failed(i)

\* C27 (bounded retry with fallback): for max_retries >= 1, _analyze_code
\* issues at most max_retries requests, stops at the first request that
\* succeeds, waits retry_delay after each failed attempt except the last,
\* and when every attempt fails returns the minimal structure (no
\* functions, dependencies or entry points, a failure summary): it neither
\* raises nor returns None.
C27_BoundedRetry ==
  Attempting =>
     LET n == Len(analyzer.requests)
     IN /\ n <= analyzer.max_retries
        /\ \A i \in 1..(n - 1) : Failed(i)
        /\ analyzer.sleeps =
             Cardinality({i \in 1..n : Failed(i) /\ i # analyzer.max_retries})
        /\ analyzer.pc = "returned" <=>
             (n > 0 /\ (~Failed(n) \/ n = analyzer.max_retries))
        /\ analyzer.pc = "returned" => analyzer.result.kind = "dict"
        /\ (analyzer.pc = "returned" /\ AllFailed) =>
             /\ analyzer.result.value.functions = <<>>
             /\ analyzer.result.value.dependencies = <<>>
             /\ analyzer.result.value.entry_points = <<>>
             /\ analyzer.result.value.summary = "Analysis failed after max_retries attempts"

\* Three attempts, with two waits between them, all failed.
C27_Witness ==
  /\ Attempting
  /\ analyzer.pc = "returned"
  /\ analyzer.max_retries = 3
  /\ AllFailed
  /\ analyzer.sleeps = 2
  /\ analyzer.result = Returns(minimal_structure("Analysis failed after max_retries attempts"))

\* C28: in _analyze_code a response that cannot be parsed as JSON causes the
\* request to be retried on every attempt except the last; only on the last
\* attempt is the empty fallback structure of the parser returned.
C28_UnparseableIsRetried ==
  Attempting =>
     \A i \in 1..Len(analyzer.requests) :
        (Unparseable(i) /\ i < analyzer.max_retries) =>
           ~(analyzer.pc = "returned" /\ Len(analyzer.requests) = i)

----------------------------------------------------------------------------
(* analyze_project: the loop over the code files, failures included.        *)
(* SpecRun: explore finds the first n files of ProjectFiles; for each file  *)
(* analyze_file raises or returns an analysis, and add_file_analysis        *)
(* completes or raises; get_summary follows the loop.                       *)

\* What analyze_file returns to the loop when it does not raise.
RunAnalyses ==
  { FunctionAnalysis("main", <<"helper">>),
    FunctionAnalysis("helper", <<>>),
    minimal_structure("Analysis failed after max_retries attempts") }

\* Analyses on which add_file_analysis raises: a JSON value that is no
\* object (AttributeError at analysis.get, before any store), and an object
\* whose "functions" is null (TypeError at the loop over the functions,
\* after the summary, the dependencies and the entry points are stored).
NoDictAnalysis == [nondict |-> TRUE]

NullFunctionsAnalysis ==
  [summary |-> "t", dependencies |-> <<"os">>, entry_points |-> <<"util">>, functions |-> "null"]

\* The file the loop handles next.
NextFile == run.code_files[Len(run.events) + 1]

Event(outcome, analysis) ==
  [file_path |-> NextFile, outcome |-> outcome, analysis |-> analysis]

\* A variant in which the exception leaves analyze_project.
exception_propagates(r, event) == [r EXCEPT !.pc = "raised", !.events = Append(@, event)]

\* "except Exception": the error is printed and the loop goes on.
continue_with_next_file(r, event) == [r EXCEPT !.events = Append(@, event)]

\* explorer.explore(root_dir); without code files analyze_project returns {}.
explore ==
  /\ run = NoRun
  /\ \E n \in 0..Min({MaxFiles, Len(ProjectFiles)}) :
       run' = [pc |-> IF n = 0 THEN "returned" ELSE "loop",
               code_files |-> SubSeq(ProjectFiles, 1, n),
               events |-> <<>>, builder_data |-> EmptyDict]
  /\ UNCHANGED <<builder_vars, diagram, first_pass, observed, analyzer>>

InLoop == run.pc = "loop" /\ Len(run.events) < Len(run.code_files)

\* One iteration in which analyze_file raises ValueError.
analysis_raises ==
  /\ InLoop
  /\ run' = continue_with_next_file(run, Event("analysis raised", EmptyDict))
  /\ UNCHANGED <<builder_vars, diagram, first_pass, observed, analyzer>>

\* One iteration without exception.
analyze_and_ingest ==
  /\ InLoop
  /\ \E analysis \in RunAnalyses :
       /\ Ingest(NextFile, analysis)
       /\ run' = [run EXCEPT !.events = Append(@, Event("ingested", analysis))]
  /\ UNCHANGED <<diagram, first_pass, observed, analyzer>>

\* One iteration in which add_file_analysis raises at its first statement.
ingest_raises_at_once ==
  /\ InLoop
  /\ run' = continue_with_next_file(run, Event("ingestion raised", NoDictAnalysis))
  /\ UNCHANGED <<builder_vars, diagram, first_pass, observed, analyzer>>

\* One iteration in which add_file_analysis raises at the loop over the
\* functions.
ingest_raises_midway ==
  /\ InLoop
  /\ LET analysis == NullFunctionsAnalysis
     IN /\ file_summaries' = Put(file_summaries, NextFile, summary_of(analysis))
        /\ file_keys' = IF NextFile \in DOMAIN file_summaries
                        THEN file_keys ELSE Append(file_keys, NextFile)
        /\ all_dependencies' = all_dependencies \cup Range(analysis.dependencies)
        /\ all_entry_points' = all_entry_points \cup Range(analysis.entry_points)
        /\ run' = continue_with_next_file(run, Event("ingestion raised", analysis))
  /\ UNCHANGED <<all_functions, fn_keys, call_graph, reverse_call_graph, log,
                 diagram, first_pass, observed, analyzer>>

\* builder.get_summary() after the loop.
summarise ==
  /\ run.pc = "loop"
  /\ Len(run.events) = Len(run.code_files)
  /\ \E order \in IterationOrders(all_entry_points) :
       run' = [run EXCEPT !.pc = "summarised", !.builder_data = get_summary(order)]
  /\ UNCHANGED <<builder_vars, diagram, first_pass, observed, analyzer>>

NextRun ==
  \/ explore
  \/ analysis_raises
  \/ analyze_and_ingest
  \/ ingest_raises_at_once
  \/ ingest_raises_midway
  \/ summarise

SpecRun == Init /\ [][NextRun]_vars

----------------------------------------------------------------------------
\* analyze_project has found its code files.
Explored == run # NoRun

\* The entry points of the analyses that reached the builder's entry-point
\* store.
StoredEntryPoints ==
  UNION {Range(Get(run.events[i].analysis, "entry_points", <<>>)) :
           i \in {k \in 1..Len(run.events) : run.events[k].analysis # NoDictAnalysis}}

\* C29: analyze_project analyses and ingests the files one after another in
\* discovery order; a failure while analysing or ingesting one file does not
\* stop the run: the exception never leaves the loop and the later files are
\* still analysed and ingested; get_summary is called only after the last
\* file; a file whose analysis raised contributes no summary, no function
\* and no entry point to the builder.
C29_RunSurvivesFailures ==
  Explored =>
     /\ run.pc # "raised"
     /\ Len(run.events) <= Len(run.code_files)
     /\ \A i \in 1..Len(run.events) :
          LET e == run.events[i]
          IN /\ e.file_path = run.code_files[i]
             /\ e.outcome = "analysis raised" =>
                  /\ e.file_path \notin DOMAIN file_summaries
                  /\ \A f \in DOMAIN all_functions : all_functions[f].file_path # e.file_path
             /\ e.outcome = "ingested" =>
                  /\ e.file_path \in DOMAIN file_summaries
                  /\ file_summaries[e.file_path] = summary_of(e.analysis)
                  /\ ReportedNames(e.analysis) \subseteq DOMAIN all_functions
     /\ all_entry_points = StoredEntryPoints
     /\ run.pc = "summarised" =>
          /\ Len(run.events) = Len(run.code_files)
          /\ DOMAIN run.builder_data.file_summaries = DOMAIN file_summaries
          /\ run.builder_data.function_details = all_functions

\* Three files: the analysis of the first raised, the ingestion of the
\* second raised, the third was ingested and is in the summary.
C29_Witness ==
  /\ Explored
  /\ run.pc = "summarised"
  /\ Len(run.code_files) = 3
  /\ run.events[1].outcome = "analysis raised"
  /\ run.events[2].outcome = "ingestion raised"
  /\ run.events[3].outcome = "ingested"
  /\ run.events[3].analysis = FunctionAnalysis("main", <<"helper">>)
  /\ run.code_files[1] \notin DOMAIN run.builder_data.file_summaries
  /\ run.builder_data.function_details["main"].file_path = run.code_files[3]

====
